---- MODULE Spec2Model ----
(***************************************************************************)
(* CogLoop: a decaying-weight associative memory (MAM weight model,        *)
(* golden-ratio activation, content-addressed ids, vector store) and the   *)
(* think cycle that drives it.                                             *)
(*                                                                         *)
(* Numbers.  Python floats are modelled in fixed point: the float 1.0 is   *)
(* the integer One, products are rescaled with floor division.  Time is    *)
(* counted in whole hours.                                                 *)
(* Text.  A Python str is a sequence of one-character strings.             *)
(***************************************************************************)
EXTENDS Integers, Sequences, FiniteSets, TLC

\* ---------------------------------------------------------------- bounds
MaxHours  == 2   \* timestamps handed to calculate_weight range over 0..MaxHours
MaxAccess == 2   \* access counts handed to calculate_weight range over 0..MaxAccess
MaxMemories == 5 \* candidate lists handed to select_activated_memories have 0..MaxMemories items
MaxStrLen == 2   \* set ids and contents handed to vector_id have 0..MaxStrLen characters
MaxEntries == 2  \* the model's activated_cog_ids has 0..MaxEntries entries
MaxActivated == 2 \* the recalled activated list handed to the parser has 0..MaxActivated units

\* ------------------------------------------------------------- constants
One == 10000                  \* the float 1.0
DefaultBeta == 8500           \* beta = 0.85
DefaultGamma == 3000          \* gamma = 0.3
DefaultB == 500               \* b = 0.05
DefaultInitialWeight == 5000  \* initial_weight = 0.5
DefaultGoldenRatio == 6180    \* golden_ratio = 0.618

Max(a, b) == IF a >= b THEN a ELSE b
Min(a, b) == IF a <= b THEN a ELSE b

\* ------------------------------------------------------------------- MAM
\* MAM.__init__: the five construction parameters, stored as given.
MAM(beta, gamma, b, initial_weight, golden_ratio) ==
  [beta |-> beta, gamma |-> gamma, b |-> b,
   initial_weight |-> initial_weight, golden_ratio |-> golden_ratio]

DefaultMAM ==
  MAM(DefaultBeta, DefaultGamma, DefaultB, DefaultInitialWeight, DefaultGoldenRatio)

\* Construction parameter settings the weight model is exercised with.
Betas == {0, DefaultBeta}
Gammas == {0, DefaultGamma}
Bs == {DefaultB, 3000}
InitialWeights == {0, DefaultInitialWeight}
MAMSettings ==
  {MAM(be, ga, b, iw, DefaultGoldenRatio) :
     be \in Betas, ga \in Gammas, b \in Bs, iw \in InitialWeights}

\* math.exp(-beta) for one hour, to four places (exp(-0.85) = 0.4274).
ExpNegBeta(beta) ==
  CASE beta = 0 -> One
    [] beta = DefaultBeta -> 4274

RECURSIVE DecayPow(_, _)
DecayPow(e, n) == IF n = 0 THEN One ELSE (DecayPow(e, n - 1) * e) \div One

\* math.exp(-beta * time_diff), time_diff in whole hours (negative when the
\* current time precedes the last access).
TimeDecay(beta, time_diff) ==
  IF time_diff >= 0
    THEN DecayPow(ExpNegBeta(beta), time_diff)
    ELSE (One * One) \div DecayPow(ExpNegBeta(beta), 0 - time_diff)

\* Mutants of calculate_weight.
calculate_weight_clamped_first(m, current_weight, last_access_time, current_time, access_count) ==
  LET time_decay == TimeDecay(m.beta, current_time - last_access_time)
      access_boost == One + m.gamma * access_count
      new_weight == (((current_weight * time_decay) \div One) * access_boost) \div One - m.b
  IN IF current_weight = 0
       THEN Max(0, Min(One, m.initial_weight - m.b - 1))
       ELSE Max(0, Min(One, new_weight))

calculate_weight_additive(m, current_weight, last_access_time, current_time, access_count) ==
  LET time_decay == TimeDecay(m.beta, current_time - last_access_time)
      new_weight == (current_weight * time_decay) \div One + m.gamma * access_count - m.b
  IN IF current_weight = 0
       THEN m.initial_weight - m.b
       ELSE Max(0, Min(One, new_weight))

\* MAM.calculate_weight
calculate_weight(m, current_weight, last_access_time, current_time, access_count) ==
  IF current_weight = 0
    THEN m.initial_weight - m.b
    ELSE LET time_diff == current_time - last_access_time
             time_decay == TimeDecay(m.beta, time_diff)
             access_boost == One + m.gamma * access_count
             new_weight ==
               (((current_weight * time_decay) \div One) * access_boost) \div One - m.b
         IN Max(0, Min(One, new_weight))

\* Mutant of select_activated_memories: the split index without its floor of 1.
select_activated_memories_no_floor(m, memories, sort_by) ==
  LET split_index == (Len(memories) * m.golden_ratio) \div One
  IN IF memories = <<>> THEN <<>>
     ELSE SubSeq(memories, 1, Min(split_index, Len(memories)))

\* x.get(sort_by, 0): an item is a dict, here a function from its keys.
KeyOf(x, sort_by) == IF sort_by \in DOMAIN x THEN x[sort_by] ELSE 0

\* One step of the stable descending sort: x goes after every element whose
\* key is at least its own.
RECURSIVE InsertDesc(_, _, _)
InsertDesc(sorted, x, sort_by) ==
  IF sorted = <<>> THEN <<x>>
  ELSE IF KeyOf(Head(sorted), sort_by) >= KeyOf(x, sort_by)
         THEN <<Head(sorted)>> \o InsertDesc(Tail(sorted), x, sort_by)
         ELSE <<x>> \o sorted

\* sorted(memories, key=lambda x: float(x.get(sort_by, 0)), reverse=True):
\* Python's sort is stable, also with reverse=True.
RECURSIVE SortedDesc(_, _)
SortedDesc(memories, sort_by) ==
  IF memories = <<>> THEN <<>>
  ELSE InsertDesc(SortedDesc(SubSeq(memories, 1, Len(memories) - 1), sort_by),
                  memories[Len(memories)], sort_by)

\* MAM.select_activated_memories
select_activated_memories(m, memories, sort_by) ==
  IF memories = <<>> THEN <<>>
  ELSE LET sorted_memories == SortedDesc(memories, sort_by)
           split_index == Max(1, (Len(sorted_memories) * m.golden_ratio) \div One)
       IN IF Len(sorted_memories) = 1 THEN sorted_memories
          ELSE SubSeq(sorted_memories, 1, Min(split_index, Len(sorted_memories)))


\* ---------------------------------------------------------- id_generator
\* hashlib.sha256(text).hexdigest()[:32], taken as an ideal hash: the digest
\* is determined by the hashed text and determines it.
Sha256Hex32(text) == [sha256_32 |-> text]

\* vector_id: the hash of f"{set_id}:{content}".
vector_id(set_id, content) ==
  LET combined == set_id \o <<":">> \o content
  IN Sha256Hex32(combined)

\* ------------------------------------------------------------ JSON, str
\* A JSON value as json.loads returns it, tagged with its Python type.
JNull == [t |-> "null"]
JBool(b) == [t |-> "bool", b |-> b]
JInt(n) == [t |-> "int", n |-> n]
JFloat(repr) == [t |-> "float", repr |-> repr]
JStr(s) == [t |-> "str", s |-> s]
JList(items) == [t |-> "list", items |-> items]
JDict(fields) == [t |-> "dict", fields |-> fields]

\* bool(value): Python truthiness.
Truthy(v) ==
  CASE v.t = "null" -> FALSE
    [] v.t = "bool" -> v.b
    [] v.t = "int" -> v.n # 0
    [] v.t = "float" -> v.repr # <<"0", ".", "0">>
    [] v.t = "str" -> v.s # <<>>
    [] v.t = "list" -> v.items # <<>>
    [] v.t = "dict" -> DOMAIN v.fields # {}

\* dict.get(key, default)
Get(d, key, default) == IF key \in DOMAIN d.fields THEN d.fields[key] ELSE default

DigitChars == <<"0", "1", "2", "3", "4", "5", "6", "7", "8", "9">>
IsDigit(c) == \E d \in 1..10 : DigitChars[d] = c
DigitValue(c) == (CHOOSE d \in 1..10 : DigitChars[d] = c) - 1

\* str(n) of an int.
RECURSIVE NatToStr(_)
NatToStr(n) ==
  IF n < 10 THEN <<DigitChars[n + 1]>>
  ELSE NatToStr(n \div 10) \o <<DigitChars[(n % 10) + 1]>>
IntToStr(n) == IF n < 0 THEN <<"-">> \o NatToStr(0 - n) ELSE NatToStr(n)

\* str(value)
PyStr(v) ==
  CASE v.t = "null" -> <<"N", "o", "n", "e">>
    [] v.t = "bool" -> IF v.b THEN <<"T", "r", "u", "e">> ELSE <<"F", "a", "l", "s", "e">>
    [] v.t = "int" -> IntToStr(v.n)
    [] v.t = "float" -> v.repr
    [] v.t = "str" -> v.s
    [] v.t = "list" -> <<"[", "]">>
    [] v.t = "dict" -> <<"{", "}">>

\* s.replace("ID=", ""): every occurrence, left to right, deleted.
RECURSIVE ReplaceID(_)
ReplaceID(s) ==
  IF Len(s) < 3 THEN s
  ELSE IF SubSeq(s, 1, 3) = <<"I", "D", "=">>
         THEN ReplaceID(SubSeq(s, 4, Len(s)))
         ELSE <<Head(s)>> \o ReplaceID(Tail(s))

\* s.strip() of the whitespace int() ignores.
RECURSIVE LStrip(_)
LStrip(s) == IF s # <<>> /\ Head(s) = " " THEN LStrip(Tail(s)) ELSE s
RECURSIVE RStrip(_)
RStrip(s) == IF s # <<>> /\ s[Len(s)] = " " THEN RStrip(SubSeq(s, 1, Len(s) - 1)) ELSE s
Strip(s) == RStrip(LStrip(s))

\* The digits of an int literal: its text without blanks and sign.
Unsigned(s) ==
  LET t == Strip(s)
  IN IF t # <<>> /\ Head(t) \in {"+", "-"} THEN Tail(t) ELSE t

\* Whether int(s) succeeds: optional blanks, optional sign, digits, single
\* underscores between digits.
IsIntLiteral(s) ==
  LET body == Unsigned(s)
  IN /\ body # <<>>
     /\ \A i \in 1..Len(body) :
          \/ IsDigit(body[i])
          \/ /\ body[i] = "_"
             /\ 1 < i /\ i < Len(body)
             /\ IsDigit(body[i - 1]) /\ IsDigit(body[i + 1])

RECURSIVE DigitsValue(_, _)
DigitsValue(body, acc) ==
  IF body = <<>> THEN acc
  ELSE IF Head(body) = "_" THEN DigitsValue(Tail(body), acc)
  ELSE DigitsValue(Tail(body), acc * 10 + DigitValue(Head(body)))

\* int(s), for s with IsIntLiteral(s).
IntValue(s) ==
  LET t == Strip(s)
      magnitude == DigitsValue(Unsigned(s), 0)
  IN IF Head(t) = "-" THEN 0 - magnitude ELSE magnitude

\* The text of a completion: the serialisation of a JSON value, or text that
\* is no JSON at all (the empty text included).
JsonText(value) == [json |-> TRUE, value |-> value]
NotJsonText(raw) == [json |-> FALSE, raw |-> raw]

\* json.loads(text)
json_loads(text) ==
  IF text.json THEN [exc |-> "none", value |-> text.value]
  ELSE [exc |-> "JSONDecodeError"]

\* ------------------------------------------------------------- CogletNet
LLMCallFailed == <<"LLM call failed">>
ParseResponseFailed == <<"Parse response failed">>

\* The record think returns: activated_cog_ids holds unit ids, the other
\* fields hold what the model's JSON object held (or their defaults).
Record(next_thought, activated_cog_ids, log, generated_cog_texts, function_calls) ==
  [next_thought |-> next_thought, activated_cog_ids |-> activated_cog_ids,
   log |-> log, generated_cog_texts |-> generated_cog_texts,
   function_calls |-> function_calls]

\* The text both _call_llm and think fall back to when the completion fails.
FailureResponse ==
  JsonText(JDict([next_thought |-> JStr(<<>>), activated_cog_ids |-> JList(<<>>),
                  log |-> JStr(LLMCallFailed), generated_cog_texts |-> JList(<<>>),
                  function_calls |-> JList(<<>>)]))

\* What completion_with_retries does: it raises, or answers with a message
\* whose content is a text or None.
CompletionRaises == [kind |-> "raises"]
CompletionNone == [kind |-> "none"]
CompletionText(text) == [kind |-> "text", content |-> text]

\* Mutant: a failed completion is answered with a record that activates the
\* first unit and generates a text.
call_llm_answering(completion) ==
  IF completion.kind # "text" \/ json_loads(completion.content).exc # "none"
    THEN JsonText(JDict([activated_cog_ids |-> JList(<<JInt(1)>>),
                         generated_cog_texts |-> JList(<<JStr(<<"g">>)>>)]))
  ELSE completion.content

\* CogletNet._call_llm: the content if it is valid JSON, else the fallback.
call_llm(completion) ==
  IF completion.kind = "raises" THEN FailureResponse
  ELSE IF completion.kind = "none" THEN FailureResponse
  ELSE IF json_loads(completion.content).exc # "none" THEN FailureResponse
  ELSE completion.content

\* The keys of a dict in iteration order.
DictKeys(d) ==
  CHOOSE ks \in [1..Cardinality(DOMAIN d.fields) -> DOMAIN d.fields] :
    \A i, j \in DOMAIN ks : i # j => ks[i] # ks[j]

\* `for idx in value`: what the loop iterates over, when it can.
Iterable(v) == v.t \in {"list", "str", "dict"}
IterItems(v) ==
  CASE v.t = "list" -> v.items
    [] v.t = "str" -> [i \in 1..Len(v.s) |-> JStr(<<v.s[i]>>)]
    [] v.t = "dict" -> [i \in 1..Cardinality(DOMAIN v.fields) |-> JStr(<<DictKeys(v)[i]>>)]

\* Mutant: an entry that is out of range or no number ends the translation.
RECURSIVE TranslateIdsAborting(_, _)
TranslateIdsAborting(entries, activated) ==
  IF entries = <<>> THEN <<>>
  ELSE LET text == ReplaceID(PyStr(Head(entries)))
       IN IF IsIntLiteral(text) /\ 1 <= IntValue(text) /\ IntValue(text) <= Len(activated)
            THEN <<activated[IntValue(text)].id>> \o TranslateIdsAborting(Tail(entries), activated)
            ELSE <<>>

\* think, the loop turning the model's 1-based indices into unit ids.
RECURSIVE TranslateIds(_, _)
TranslateIds(entries, activated) ==
  IF entries = <<>> THEN <<>>
  ELSE LET text == ReplaceID(PyStr(Head(entries)))
           rest == TranslateIds(Tail(entries), activated)
       IN IF IsIntLiteral(text) /\ 1 <= IntValue(text) /\ IntValue(text) <= Len(activated)
            THEN <<activated[IntValue(text)].id>> \o rest
            ELSE rest

\* think, step 4: the body of the try block; exc names what it raises.
ParseBody(response, activated) ==
  LET loaded == json_loads(response)
  IN IF loaded.exc # "none" THEN [exc |-> loaded.exc]
     ELSE IF ~Truthy(loaded.value) \/ loaded.value.t # "dict" THEN [exc |-> "ValueError"]
     ELSE LET result == loaded.value
              ids == Get(result, "activated_cog_ids", JList(<<>>))
          IN IF ~Iterable(ids) THEN [exc |-> "TypeError"]
             ELSE [exc |-> "none",
                   result |-> Record(Get(result, "next_thought", JStr(<<>>)),
                                     TranslateIds(IterItems(ids), activated),
                                     Get(result, "log", JStr(<<>>)),
                                     Get(result, "generated_cog_texts", JList(<<>>)),
                                     Get(result, "function_calls", JList(<<>>)))]

\* Mutant: step 4 without its except clause.
parse_response_uncaught(response, activated) == ParseBody(response, activated)

\* think, step 4: every exception of the body gives the failure record.
parse_response(response, activated) ==
  LET body == ParseBody(response, activated)
  IN IF body.exc = "none" THEN body
     ELSE [exc |-> "none",
           result |-> Record(JStr(<<>>), <<>>, JStr(ParseResponseFailed),
                             JList(<<>>), JList(<<>>))]

\* think, steps 3 and 4: from the completion to the record.
think_record(completion, activated) == parse_response(call_llm(completion), activated)


\* CogletNet._x_reply; exc names what it raises.
x_reply(args) ==
  IF args.t # "dict" THEN [exc |-> "AttributeError"]
  ELSE LET post_id == Get(args, "post_id", JNull)
           reply_text == Get(args, "reply_text", JNull)
       IN IF ~Truthy(post_id) \/ ~Truthy(reply_text)
            THEN [exc |-> "none", ret |-> JBool(FALSE)]
            ELSE [exc |-> "none", ret |-> JBool(TRUE)]

\* Mutant: every name is dispatched to X_reply.
call_function_any_name(func_call) ==
  IF func_call.t # "dict" THEN [exc |-> "AttributeError"]
  ELSE x_reply(Get(func_call, "args", JDict(<<>>)))

\* CogletNet.call_function
call_function(func_call) ==
  IF func_call.t # "dict" THEN [exc |-> "AttributeError"]
  ELSE LET func_name == Get(func_call, "name", JNull)
           args == Get(func_call, "args", JDict(<<>>))
       IN IF func_name = JStr(<<"X_reply">>) THEN x_reply(args)
          ELSE [exc |-> "none", ret |-> JNull]

\* think, step 7, the loop: the entries are dispatched in order until one
\* raises; rets holds what the calls before it returned.
RECURSIVE dispatch_all(_)
dispatch_all(func_calls) ==
  IF func_calls = <<>> THEN [exc |-> "none", rets |-> <<>>]
  ELSE LET first == call_function(Head(func_calls))
       IN IF first.exc # "none" THEN [exc |-> first.exc, rets |-> <<>>]
          ELSE LET rest == dispatch_all(Tail(func_calls))
               IN [exc |-> rest.exc, rets |-> <<first.ret>> \o rest.rets]

\* think, step 7: nothing is dispatched when function_calls is falsy.
dispatch(function_calls) ==
  IF ~Truthy(function_calls) THEN [exc |-> "none", rets |-> <<>>]
  ELSE IF ~Iterable(function_calls) THEN [exc |-> "TypeError", rets |-> <<>>]
  ELSE dispatch_all(IterItems(function_calls))


\* ------------------------------------------------ VectorStore and Coglets
MaxUnits == 2    \* the index holds at most MaxUnits vectors
MaxNow == 1      \* the clock of the memory runs over 0..MaxNow hours
MaxCount == 1    \* a stored access_count is at most MaxCount
MaxCalls == 2    \* the model's function_calls has 0..MaxCalls entries
TopK == 10

\* datetime.isoformat and datetime.fromisoformat, on whole hours.
isoformat(t) == [iso |-> t]
fromisoformat(text) == text.iso

\* dict.update: the keys of e are set in d.
DictUpdate(d, e) ==
  [k \in DOMAIN d \cup DOMAIN e |-> IF k \in DOMAIN e THEN e[k] ELSE d[k]]

EmptyDict == [k \in {} |-> 0]
EmptyIndex == [id \in {} |-> 0]

\* Mutant: a vector whose id is taken is stored beside the one that has it.
upsert_beside(idx, id, data, metadata) ==
  LET key == IF id \in DOMAIN idx THEN [sha256_32 |-> id.sha256_32 \o <<"#">>] ELSE id
  IN [i \in DOMAIN idx \cup {key} |->
        IF i = key THEN [data |-> data, metadata |-> metadata] ELSE idx[i]]

\* Index.upsert of one vector: the vector replaces the one that has its id.
upsert(idx, id, data, metadata) ==
  [i \in DOMAIN idx \cup {id} |->
     IF i = id THEN [data |-> data, metadata |-> metadata] ELSE idx[i]]

\* VectorStore._process_metadata: the reserved keys pass; a text value that
\* is JSON is decoded. The values the model stores are numbers, timestamps
\* in ISO form and words, none of which json.loads changes.
process_metadata(metadata) == [k \in DOMAIN metadata |-> metadata[k]]

\* VectorStore.add_coglet: the new index and the id returned. Every value of
\* the metadata the model hands in is a str, an int or a float.
add_coglet(idx, set_id, content, metadata, t) ==
  LET coglet_id == vector_id(set_id, content)
      full_metadata == DictUpdate([set_id |-> set_id, created_at |-> isoformat(t)],
                                  metadata)
  IN [index |-> upsert(idx, coglet_id, content, full_metadata), ret |-> coglet_id]

\* Coglets.add; metadata is a dict, or the empty dict for None.
add(m, idx, set_id, content, metadata, t) ==
  LET full_metadata == DictUpdate([weight |-> m.initial_weight,
                                   last_access |-> isoformat(t),
                                   access_count |-> 0],
                                  metadata)
  IN add_coglet(idx, set_id, content, full_metadata, t)

\* Coglets.add_batch with VectorStore.add_coglets: one upsert of all the
\* vectors, a later one replacing an earlier one of the same id.
RECURSIVE add_batch(_, _, _, _, _)
add_batch(m, idx, set_id, items, t) ==
  IF items = <<>> THEN [index |-> idx, ret |-> <<>>]
  ELSE LET first == add(m, idx, set_id, Head(items).content, Head(items).metadata, t)
           rest == add_batch(m, first.index, set_id, Tail(items), t)
       IN [index |-> rest.index, ret |-> <<first.ret>> \o rest.ret]

\* Index.update(id, metadata=...): the service either replaces the metadata
\* of the vector or sets the given keys in it.
UpdateModes == {"overwrite", "patch"}
index_update(idx, id, metadata, mode) ==
  [idx EXCEPT ![id].metadata =
     IF mode = "patch" THEN DictUpdate(idx[id].metadata, metadata) ELSE metadata]

\* VectorStore.update_coglet; exc names what it raises. failing holds the ids
\* for which the service's Index.update raises, which gives False.
update_coglet(idx, coglet_id, metadata, t, mode, failing) ==
  IF coglet_id \notin DOMAIN idx THEN [index |-> idx, exc |-> "KeyError"]
  ELSE IF coglet_id \in failing THEN [index |-> idx, exc |-> "none", ret |-> FALSE]
  ELSE [index |-> index_update(idx, coglet_id,
                               DictUpdate(metadata, [updated_at |-> isoformat(t)]), mode),
        exc |-> "none", ret |-> TRUE]

\* Mutant: the weight is updated without counting the access.
update_weight_uncounted(m, idx, coglet_id, current_time, t, mode, failing) ==
  IF coglet_id \notin DOMAIN idx THEN [index |-> idx, ret |-> FALSE]
  ELSE LET metadata == process_metadata(idx[coglet_id].metadata)
           updated_metadata == [weight |-> calculate_weight(m, metadata.weight,
                                                            fromisoformat(metadata.last_access),
                                                            current_time, metadata.access_count),
                                last_access |-> isoformat(current_time),
                                access_count |-> metadata.access_count]
           updated == update_coglet(idx, coglet_id, updated_metadata, t, mode, failing)
       IN [index |-> updated.index, ret |-> updated.exc = "none" /\ updated.ret]

\* Coglets.update_weight: every exception of the body gives False.
update_weight(m, idx, coglet_id, current_time, t, mode, failing) ==
  IF coglet_id \notin DOMAIN idx THEN [index |-> idx, ret |-> FALSE]
  ELSE LET metadata == process_metadata(idx[coglet_id].metadata)
       IN IF ~({"last_access", "weight", "access_count"} \subseteq DOMAIN metadata)
            THEN [index |-> idx, ret |-> FALSE]
          ELSE LET new_weight == calculate_weight(m, metadata.weight,
                                                  fromisoformat(metadata.last_access),
                                                  current_time, metadata.access_count)
                   updated_metadata == [weight |-> new_weight,
                                        last_access |-> isoformat(current_time),
                                        access_count |-> metadata.access_count + 1]
                   updated == update_coglet(idx, coglet_id, updated_metadata, t, mode, failing)
               IN [index |-> updated.index, ret |-> updated.exc = "none" /\ updated.ret]

\* Mutant: the first update that fails ends the batch.
RECURSIVE update_weights_aborting(_, _, _, _, _, _, _)
update_weights_aborting(m, idx, coglet_ids, current_time, t, mode, failing) ==
  IF coglet_ids = <<>> THEN [index |-> idx, ret |-> <<>>]
  ELSE LET first == update_weight(m, idx, Head(coglet_ids), current_time, t, mode, failing)
           rest == update_weights_aborting(m, first.index, Tail(coglet_ids), current_time, t,
                                           mode, failing)
       IN IF first.ret
            THEN [index |-> rest.index, ret |-> <<Head(coglet_ids)>> \o rest.ret]
          ELSE [index |-> idx, ret |-> <<>>]

\* Coglets.update_weights: one current_time for all the ids.
RECURSIVE update_weights(_, _, _, _, _, _, _)
update_weights(m, idx, coglet_ids, current_time, t, mode, failing) ==
  IF coglet_ids = <<>> THEN [index |-> idx, ret |-> <<>>]
  ELSE LET first == update_weight(m, idx, Head(coglet_ids), current_time, t, mode, failing)
           rest == update_weights(m, first.index, Tail(coglet_ids), current_time, t, mode,
                                  failing)
       IN [index |-> rest.index,
           ret |-> (IF first.ret THEN <<Head(coglet_ids)>> ELSE <<>>) \o rest.ret]

\* The vectors the filter set_id = '<set_id>' matches.
InSet(idx, set_id) ==
  {id \in DOMAIN idx : "set_id" \in DOMAIN idx[id].metadata
                         /\ idx[id].metadata.set_id = set_id}

\* The answers Index.query can give: the top_k matching vectors in the order
\* of their similarity to the query, which is the service's to decide.
SimilarityOrders(idx, set_id) ==
  LET matching == InSet(idx, set_id)
      n == Min(TopK, Cardinality(matching))
  IN {order \in [1..n -> matching] : \A i, j \in 1..n : i # j => order[i] # order[j]}

\* VectorStore.search_similar, for the order the service answers in; the
\* empty order also stands for a query that raised. The scores the service
\* attaches fall along the order.
search_similar(idx, order) ==
  [i \in 1..Len(order) |->
     [coglet_id |-> order[i], id |-> order[i], content |-> idx[order[i]].data,
      metadata |-> process_metadata(idx[order[i]].metadata),
      score |-> Len(order) - i]]

\* Coglets.recall
recall(m, idx, order) ==
  LET results == search_similar(idx, order)
  IN [all_results |-> results,
      activated |-> select_activated_memories(m, results, "weight")]

\* What the service refuses in a think cycle: the ids whose Index.update
\* raises and the contents whose Index.upsert raises.
Faults(updates, upserts) == [update |-> updates, upsert |-> upserts]
NoFaults == Faults({}, {})

\* Mutant: the generated texts are added without their provenance.
RECURSIVE add_generated_untagged(_, _, _, _, _, _)
add_generated_untagged(m, idx, set_id, texts, t, failing) ==
  IF texts = <<>> THEN [index |-> idx, exc |-> "none", created |-> <<>>]
  ELSE IF Head(texts).t # "str" THEN [index |-> idx, exc |-> "TypeError", created |-> <<>>]
  ELSE IF Head(texts).s \in failing THEN [index |-> idx, exc |-> "StoreError", created |-> <<>>]
  ELSE LET first == add(m, idx, set_id, Head(texts).s, EmptyDict, t)
           rest == add_generated_untagged(m, first.index, set_id, Tail(texts), t, failing)
       IN [index |-> rest.index, exc |-> rest.exc, created |-> <<first.ret>> \o rest.created]

\* think, step 6, the loop: every generated text is added to the set, until
\* an addition raises: content[:30] raises TypeError for an item that is no
\* text, and the service's upsert raises for the contents in failing. created
\* holds the ids of the units added before.
RECURSIVE add_generated(_, _, _, _, _, _)
add_generated(m, idx, set_id, texts, t, failing) ==
  IF texts = <<>> THEN [index |-> idx, exc |-> "none", created |-> <<>>]
  ELSE IF Head(texts).t # "str" THEN [index |-> idx, exc |-> "TypeError", created |-> <<>>]
  ELSE IF Head(texts).s \in failing THEN [index |-> idx, exc |-> "StoreError", created |-> <<>>]
  ELSE LET first == add(m, idx, set_id, Head(texts).s, [source |-> <<"generated">>], t)
           rest == add_generated(m, first.index, set_id, Tail(texts), t, failing)
       IN [index |-> rest.index, exc |-> rest.exc, created |-> <<first.ret>> \o rest.created]

\* think, step 6: the value of generated_cog_texts is iterated.
persist(m, idx, set_id, generated_cog_texts, t, failing) ==
  IF ~Iterable(generated_cog_texts)
    THEN [index |-> idx, exc |-> "TypeError", created |-> <<>>]
  ELSE add_generated(m, idx, set_id, IterItems(generated_cog_texts), t, failing)

\* The calls a think cycle makes on its collaborators, in their order.
Event(e, what) == [e |-> e, what |-> what]
EventsOf(e, whats) == [i \in 1..Len(whats) |-> Event(e, whats[i])]

\* CogletNet.think with its collaborators: the record returned or the
\* exception raised, the index left behind by the weight updates (step 5) and
\* the additions (step 6), and the calls made. The function calls of step 7
\* change nothing that is stored.
think_cycle(m, idx, set_id, input_text, order, completion, t, mode, faults) ==
  LET activated == recall(m, idx, order).activated
      result == think_record(completion, activated).result
      reinforced == IF result.activated_cog_ids # <<>>
                      THEN update_weights(m, idx, result.activated_cog_ids, t, t, mode,
                                          faults.update)
                      ELSE [index |-> idx, ret |-> <<>>]
      persisted == persist(m, reinforced.index, set_id, result.generated_cog_texts, t,
                           faults.upsert)
      dispatched == IF persisted.exc = "none" THEN dispatch(result.function_calls)
                    ELSE [exc |-> persisted.exc, rets |-> <<>>]
  IN [index |-> persisted.index, exc |-> dispatched.exc, ret |-> result,
      activated |-> activated, reinforced |-> reinforced.ret,
      events |-> <<Event("recall", input_text), Event("completion", input_text)>>
                   \o EventsOf("update", result.activated_cog_ids)
                   \o EventsOf("upsert", persisted.created)
                   \o EventsOf("dispatch", dispatched.rets)
                   \o <<Event(IF dispatched.exc = "none" THEN "return" ELSE "raise",
                              dispatched.exc)>>]

\* CogletNet.think when the service refuses nothing: the index and the record.
think(m, idx, set_id, order, completion, t, mode) ==
  LET done == think_cycle(m, idx, set_id, JStr(<<"q">>), order, completion, t, mode,
                          NoFaults)
  IN [index |-> done.index, ret |-> done.ret]

\* ----------------------------------------------------------------- state
VARIABLES
  mam,          \* the MAM instance (construction parameters)
  call,         \* the last call made and what it returned
  index,        \* the vectors the service stores: id -> data and metadata
  now,          \* datetime.now(), in whole hours
  update_mode,  \* how the service's Index.update treats metadata
  added         \* the ids add has returned so far, per (set_id, content)

vars == <<mam, call, index, now, update_mode, added>>

\* The store as construction leaves it: create_set has cleaned the set.
EmptyStore ==
  /\ index = EmptyIndex
  /\ now = 0
  /\ update_mode = "patch"
  /\ added = {}

\* A call of a pure function: its arguments are drawn when the behaviour
\* starts, the call is made once and its result recorded.
Returned(op) == call.op = op /\ call.returned

\* ------------------------------------------- the weight model on its own
CurrentWeights == {0, 1, 4080, 5000, 8000, One}

InitMAM ==
  /\ EmptyStore
  /\ mam \in MAMSettings
  /\ \E cw \in CurrentWeights, last \in 0..MaxHours, cur \in 0..MaxHours,
        ac \in 0..MaxAccess :
       call = [op |-> "calculate_weight", returned |-> FALSE,
               current_weight |-> cw, last_access_time |-> last,
               current_time |-> cur, access_count |-> ac]

CalculateWeight ==
  /\ call.op = "calculate_weight" /\ ~call.returned
  /\ call' = [op |-> "calculate_weight", returned |-> TRUE,
              current_weight |-> call.current_weight,
              last_access_time |-> call.last_access_time,
              current_time |-> call.current_time,
              access_count |-> call.access_count,
              ret |-> calculate_weight(mam, call.current_weight, call.last_access_time,
                                       call.current_time, call.access_count)]
  /\ UNCHANGED <<mam, index, now, update_mode, added>>

NextMAM == CalculateWeight

SpecMAM == InitMAM /\ [][NextMAM]_vars

\* ----------------------------------------------- C1, C3: calculate_weight
\* C1: MAM.calculate_weight returns a weight w with 0.0 <= w <= 1.0 for every
\* input and every construction parameter setting, the first-time branch
\* (current_weight == 0) included.
C1_WeightInUnitInterval ==
  Returned("calculate_weight") => (0 <= call.ret /\ call.ret <= One)

\* C3: MAM.calculate_weight equals the reference formula: initial_weight - b
\* when current_weight == 0, otherwise
\* clamp(current_weight * time_decay * (1 + gamma * access_count) - b) to [0, 1],
\* where time_decay depends only on beta and the elapsed hours, is 1 for no
\* elapsed time and does not increase as the elapsed time grows
\* (0.5, no elapsed time, 2 accesses, gamma 0.3, b 0.05 give 0.75).
C3_ReferenceFormula ==
  Returned("calculate_weight") =>
    LET cw == call.current_weight
        elapsed == call.current_time - call.last_access_time
        decay == TimeDecay(mam.beta, elapsed)
        boost == One + mam.gamma * call.access_count
        raw == (((cw * decay) \div One) * boost) \div One - mam.b
    IN /\ cw = 0 => call.ret = mam.initial_weight - mam.b
       /\ cw # 0 => call.ret = (IF raw < 0 THEN 0 ELSE IF raw > One THEN One ELSE raw)
       /\ elapsed = 0 => decay = One
       /\ \A later \in elapsed..MaxHours : TimeDecay(mam.beta, later) <= decay
       /\ (/\ cw = 5000 /\ elapsed = 0 /\ call.access_count = 2
           /\ mam.gamma = 3000 /\ mam.b = 500) => call.ret = 7500

C3_Witness ==
  /\ Returned("calculate_weight")
  /\ mam = DefaultMAM
  /\ call.current_weight = 8000
  /\ call.current_time - call.last_access_time = 1
  /\ call.access_count = 1
  /\ call.ret = 3944

\* ------------------------------------- the activation selector on its own
GoldenRatios == {3000, DefaultGoldenRatio}
SortKeys == {"weight", "importance"}

\* The item at position i of a candidate list: always a content (its
\* position), a weight or none, an importance or none.
ItemWeights == {2000, 9000}
ItemImportance == 3
ItemShapes ==
  [keys : {{}, {"weight"}, {"weight", "importance"}}, weight : ItemWeights]
Item(i, shape) ==
  [k \in {"content"} \cup shape.keys |->
     CASE k = "content" -> i
       [] k = "weight" -> shape.weight
       [] k = "importance" -> ItemImportance]
MemoryLists ==
  UNION {{[i \in 1..n |-> Item(i, shapes[i])] : shapes \in [1..n -> ItemShapes]} :
           n \in 0..MaxMemories}

InitSelect ==
  /\ EmptyStore
  /\ mam \in {MAM(DefaultBeta, DefaultGamma, DefaultB, DefaultInitialWeight, gr) :
                gr \in GoldenRatios}
  /\ \E memories \in MemoryLists, sort_by \in SortKeys :
       call = [op |-> "select_activated_memories", returned |-> FALSE,
               memories |-> memories, sort_by |-> sort_by]

SelectActivatedMemories ==
  /\ call.op = "select_activated_memories" /\ ~call.returned
  /\ call' = [op |-> "select_activated_memories", returned |-> TRUE,
              memories |-> call.memories, sort_by |-> call.sort_by,
              ret |-> select_activated_memories(mam, call.memories, call.sort_by)]
  /\ UNCHANGED <<mam, index, now, update_mode, added>>

NextSelect == SelectActivatedMemories

SpecSelect == InitSelect /\ [][NextSelect]_vars

\* C4: select_activated_memories returns the first k items of the candidates
\* sorted in descending order of the key: k = 0 for no candidate, 1 for one,
\* max(1, floor(N * golden_ratio)) for N >= 2; of 5 weighted candidates with
\* golden_ratio 0.618 exactly the 3 highest are returned.
C4_SelectTopK ==
  Returned("select_activated_memories") =>
    LET ms == call.memories
        r == call.ret
        N == Len(ms)
        key(x) == KeyOf(x, call.sort_by)
        k == IF N = 0 THEN 0
             ELSE IF N = 1 THEN 1
             ELSE Max(1, (N * mam.golden_ratio) \div One)
        chosen == {r[i] : i \in 1..Len(r)}
        all == {ms[i] : i \in 1..N}
    IN /\ Len(r) = k
       /\ Cardinality(chosen) = k
       /\ chosen \subseteq all
       /\ \A i \in 1..(Len(r) - 1) : key(r[i]) >= key(r[i + 1])
       /\ \A x \in all \ chosen, y \in chosen : key(x) <= key(y)
       /\ (N = 5 /\ mam.golden_ratio = DefaultGoldenRatio) => k = 3

C4_Witness ==
  /\ Returned("select_activated_memories")
  /\ mam.golden_ratio = DefaultGoldenRatio
  /\ call.sort_by = "weight"
  /\ Len(call.memories) = 5
  /\ \A i \in 1..5 : "weight" \in DOMAIN call.memories[i]
  /\ call.memories[1].weight = 2000
  /\ call.memories[5].weight = 9000
  /\ Len(call.ret) = 3
  /\ call.ret[1].weight = 9000

\* C5: no item that lacks the ranking key is in the activated subset.
C5_MissingKeyNeverActivated ==
  Returned("select_activated_memories") =>
    \A i \in 1..Len(call.ret) : call.sort_by \in DOMAIN call.ret[i]

\* ------------------------------------------------- vector_id on its own
IdAlphabet == {"a", ":"}
IdStrings == UNION {[1..n -> IdAlphabet] : n \in 0..MaxStrLen}

InitId ==
  /\ EmptyStore
  /\ mam = DefaultMAM
  /\ \E s1 \in IdStrings, c1 \in IdStrings, s2 \in IdStrings, c2 \in IdStrings :
       call = [op |-> "vector_id", returned |-> FALSE,
               first |-> [set_id |-> s1, content |-> c1],
               second |-> [set_id |-> s2, content |-> c2]]

\* Two calls of vector_id, one after the other.
VectorIdTwice ==
  /\ call.op = "vector_id" /\ ~call.returned
  /\ call' = [op |-> "vector_id", returned |-> TRUE,
              first |-> call.first, second |-> call.second,
              ret1 |-> vector_id(call.first.set_id, call.first.content),
              ret2 |-> vector_id(call.second.set_id, call.second.content)]
  /\ UNCHANGED <<mam, index, now, update_mode, added>>

NextId == VectorIdTwice

SpecId == InitId /\ [][NextId]_vars

\* C7: vector_id is deterministic and separates inputs: the same
\* (set_id, content) gives the same id, and two different pairs give
\* different ids (the hash taken as injective on the text it is applied to).
C7_DeterministicAndSeparating ==
  Returned("vector_id") =>
    ((call.first = call.second) <=> (call.ret1 = call.ret2))

\* ------------------------------------- think's steps 3 and 4 on their own
\* The activated list a recall returned: n units of one collection.
ParseSetId == <<"s">>
UnitContent(i) == [j \in 1..i |-> "m"]
ActivatedUnit(i) ==
  [id |-> vector_id(ParseSetId, UnitContent(i)), content |-> UnitContent(i)]
ActivatedLists == {[i \in 1..n |-> ActivatedUnit(i)] : n \in 0..MaxActivated}

\* Entries a model puts in activated_cog_ids.
IndexTokens ==
  {JInt(n) : n \in {0 - 1, 0, 1, 2, 3, 99}}
    \cup {JStr(s) : s \in {<<"I", "D", "=", "1">>, <<"I", "D", "=", "2">>,
                           <<"I", "D", "=", "3">>, <<"I", "D", "=", "9", "9">>,
                           <<"1">>, <<"2">>, <<"I", "D", "=", "I", "D", "=", "2">>,
                           <<"I", "D", "=", "x">>, <<"x">>, <<>>,
                           <<"I", "D", "=", " ", "1">>}}
    \cup {JFloat(<<"1", ".", "0">>), JBool(TRUE), JNull}
TokenLists == UNION {[1..n -> IndexTokens] : n \in 0..MaxEntries}

\* The text the model generates.
GeneratedText == <<"a">>

\* JSON objects a model answers with: activated_cog_ids absent, a list of
\* entries, a text or a number; next_thought absent or present.
ModelDict(ids, keys) ==
  JDict([k \in keys |->
           CASE k = "activated_cog_ids" -> ids
             [] k = "next_thought" -> JStr(<<"next">>)
             [] k = "log" -> JStr(<<"log">>)
             [] k = "generated_cog_texts" -> JList(<<JStr(GeneratedText)>>)])
ModelDicts ==
  {ModelDict(JList(entries), {"activated_cog_ids", "log", "generated_cog_texts"} \cup nt) :
     entries \in TokenLists, nt \in {{}, {"next_thought"}}}
    \cup {ModelDict(ids, {"activated_cog_ids", "log"}) :
            ids \in {JInt(5), JNull, JStr(<<"I", "D", "=", "1">>)}}
    \cup {ModelDict(JNull, {"log"}), ModelDict(JNull, {"next_thought"})}

\* Completions that fail: the call raises, there is no content, the content
\* is no JSON or empty, or it is JSON but no object or an empty one.
UnparseableCompletions ==
  {CompletionRaises, CompletionNone,
   CompletionText(NotJsonText(<<"not json">>)), CompletionText(NotJsonText(<<>>))}
NonObjectCompletions ==
  {CompletionText(JsonText(v)) :
     v \in {JNull, JInt(0), JInt(42), JBool(TRUE), JStr(<<"x">>), JStr(<<>>),
            JList(<<>>), JList(<<JInt(1)>>), JDict(<<>>)}}
FailingCompletions == UnparseableCompletions \cup NonObjectCompletions

Completions == FailingCompletions \cup {CompletionText(JsonText(d)) : d \in ModelDicts}

InitParse ==
  /\ EmptyStore
  /\ mam = DefaultMAM
  /\ \E completion \in Completions, activated \in ActivatedLists :
       call = [op |-> "think_record", returned |-> FALSE,
               completion |-> completion, activated |-> activated]

ThinkRecord ==
  /\ call.op = "think_record" /\ ~call.returned
  /\ call' = [op |-> "think_record", returned |-> TRUE,
              completion |-> call.completion, activated |-> call.activated,
              ret |-> think_record(call.completion, call.activated)]
  /\ UNCHANGED <<mam, index, now, update_mode, added>>

NextParse == ThinkRecord

SpecParse == InitParse /\ [][NextParse]_vars

\* Two think cycles, one after the other, on the same activated list.
InitFail ==
  /\ EmptyStore
  /\ mam = DefaultMAM
  /\ \E first \in FailingCompletions,
        second \in FailingCompletions \cup
                   {CompletionText(JsonText(ModelDict(JList(<<JInt(1)>>),
                                                      {"activated_cog_ids", "log"})))},
        activated \in ActivatedLists :
       call = [op |-> "think_record_twice", returned |-> FALSE,
               first |-> first, second |-> second, activated |-> activated]

ThinkRecordTwice ==
  /\ call.op = "think_record_twice" /\ ~call.returned
  /\ call' = [op |-> "think_record_twice", returned |-> TRUE,
              first |-> call.first, second |-> call.second,
              activated |-> call.activated,
              ret1 |-> think_record(call.first, call.activated),
              ret2 |-> think_record(call.second, call.activated)]
  /\ UNCHANGED <<mam, index, now, update_mode, added>>

NextFail == ThinkRecordTwice

SpecFail == InitFail /\ [][NextFail]_vars

C10_OnlyIntOrIdEqualsN ==
  (/\ Returned("think_record")
   /\ call.completion \in {CompletionText(JsonText(d)) : d \in ModelDicts}
   /\ Get(call.completion.content.value, "activated_cog_ids", JList(<<>>)).t = "list") =>
    LET obj == call.completion.content.value
        entries == Get(obj, "activated_cog_ids", JList(<<>>)).items
        n == Len(call.activated)
        Index(e) ==
          IF e.t = "int" THEN e.n
          ELSE IF e.t = "str" /\ \E k \in 1..n : e.s = <<"I", "D", "=">> \o NatToStr(k)
            THEN CHOOSE k \in 1..n : e.s = <<"I", "D", "=">> \o NatToStr(k)
          ELSE 0
        keep == {i \in DOMAIN entries : 1 <= Index(entries[i]) /\ Index(entries[i]) <= n}
        Nth(j) == CHOOSE i \in keep : Cardinality({k \in keep : k < i}) = j - 1
        r == call.ret.result
    IN /\ call.ret.exc = "none"
       /\ r.activated_cog_ids =
            [j \in 1..Cardinality(keep) |-> call.activated[Index(entries[Nth(j)])].id]
       /\ r.next_thought = Get(obj, "next_thought", JStr(<<>>))
       /\ r.log = Get(obj, "log", JStr(<<>>))
       /\ r.generated_cog_texts = Get(obj, "generated_cog_texts", JList(<<>>))
       /\ r.function_calls = Get(obj, "function_calls", JList(<<>>))

\* C10 (amended): under the same precondition the returned activated_cog_ids
\* is exactly, in order, activated[n-1].id for each entry that is an integer
\* n, or a string that reads as the integer n once every "ID=" in it is
\* deleted (so "ID=2", "2" and "ID=ID=2" all name position 2), with
\* 1 <= n <= len(activated); every other entry is dropped without affecting
\* the remaining entries or the other fields.
C10_IntOrStringReadingAsInt ==
  (/\ Returned("think_record")
   /\ call.completion \in {CompletionText(JsonText(d)) : d \in ModelDicts}
   /\ Get(call.completion.content.value, "activated_cog_ids", JList(<<>>)).t = "list") =>
    LET obj == call.completion.content.value
        entries == Get(obj, "activated_cog_ids", JList(<<>>)).items
        n == Len(call.activated)
        Index(e) ==
          IF e.t = "int" THEN e.n
          ELSE IF e.t = "str" /\ IsIntLiteral(ReplaceID(e.s)) THEN IntValue(ReplaceID(e.s))
          ELSE 0
        keep == {i \in DOMAIN entries : 1 <= Index(entries[i]) /\ Index(entries[i]) <= n}
        Nth(j) == CHOOSE i \in keep : Cardinality({k \in keep : k < i}) = j - 1
        r == call.ret.result
    IN /\ call.ret.exc = "none"
       /\ r.activated_cog_ids =
            [j \in 1..Cardinality(keep) |-> call.activated[Index(entries[Nth(j)])].id]
       /\ r.next_thought = Get(obj, "next_thought", JStr(<<>>))
       /\ r.log = Get(obj, "log", JStr(<<>>))
       /\ r.generated_cog_texts = Get(obj, "generated_cog_texts", JList(<<>>))
       /\ r.function_calls = Get(obj, "function_calls", JList(<<>>))

C10_Witness ==
  /\ Returned("think_record")
  /\ Len(call.activated) = 2
  /\ call.completion =
       CompletionText(JsonText(ModelDict(
         JList(<<JStr(<<"I", "D", "=", "1">>), JInt(99)>>),
         {"activated_cog_ids", "log", "generated_cog_texts"})))
  /\ call.ret.exc = "none"
  /\ call.ret.result.activated_cog_ids = <<ActivatedUnit(1).id>>
  /\ call.ret.result.log = JStr(<<"log">>)

\* ------------------------------------------------- the memory in operation
\* The sets and the contents a caller names: two contents in set "a", and
\* one in set "a:" that shares its id with one of them.
SetIds == {<<"a">>, <<"a", ":">>}
ContentsOf(set_id) == IF set_id = <<"a">> THEN {<<"a">>, <<":", "a">>} ELSE {<<"a">>}

\* Metadata a caller hands to add: none, or a weight of its own.
CallerMetadata == {EmptyDict, [weight |-> 2 * One]}

\* Batches a caller hands to add_batch: two items, the first without
\* metadata, the second with a weight of its own.
BatchItems(set_id) ==
  {<<[content |-> c1, metadata |-> EmptyDict],
     [content |-> c2, metadata |-> [weight |-> 2 * One]]>> :
     c1 \in ContentsOf(set_id), c2 \in ContentsOf(set_id)}

\* Ids a caller can name: those of the units it can add, stored or not.
MissingId == vector_id(<<"a", ":">>, <<":", "a">>)
CogletIds ==
  UNION {{vector_id(s, c) : c \in ContentsOf(s)} : s \in SetIds} \cup {MissingId}
CogletIdLists == [1..2 -> CogletIds]

\* What the model answers in a think cycle.
ThinkCompletions ==
  {CompletionRaises,
   CompletionText(JsonText(ModelDict(JList(<<JStr(<<"I", "D", "=", "2">>), JInt(1)>>),
                                     {"activated_cog_ids", "generated_cog_texts"})))}

\* The states the guards keep the memory in.
WithinBounds(idx) ==
  /\ Cardinality(DOMAIN idx) <= MaxUnits
  /\ \A id \in DOMAIN idx :
       "access_count" \in DOMAIN idx[id].metadata
         => idx[id].metadata.access_count <= MaxCount

\* The ids returned so far, with one more.
Recorded(ids, set_id, content, id) ==
  ids \cup {[set_id |-> set_id, content |-> content, id |-> id]}

\* Whether add was given the pair before.
AddedBefore(ids, set_id, content) ==
  \E r \in ids : r.set_id = set_id /\ r.content = content

RECURSIVE RecordedAll(_, _, _, _)
RecordedAll(ids, set_id, items, ret) ==
  IF items = <<>> THEN ids
  ELSE RecordedAll(Recorded(ids, set_id, Head(items).content, Head(ret)),
                   set_id, Tail(items), Tail(ret))

Init ==
  /\ mam = DefaultMAM
  /\ update_mode \in UpdateModes
  /\ index = EmptyIndex
  /\ now = 0
  /\ added = {}
  /\ call = [op |-> "init", returned |-> TRUE]

\* An hour passes.
Tick ==
  /\ now < MaxNow
  /\ now' = now + 1
  /\ call' = [op |-> "tick", returned |-> TRUE]
  /\ UNCHANGED <<mam, index, update_mode, added>>

Add ==
  \E set_id \in SetIds, metadata \in CallerMetadata :
   \E content \in ContentsOf(set_id) :
    LET done == add(mam, index, set_id, content, metadata, now)
    IN /\ WithinBounds(done.index)
       /\ index' = done.index
       /\ added' = Recorded(added, set_id, content, done.ret)
       /\ call' = [op |-> "add", returned |-> TRUE, set_id |-> set_id,
                   content |-> content, metadata |-> metadata, ret |-> done.ret,
                   again |-> AddedBefore(added, set_id, content)]
       /\ UNCHANGED <<mam, now, update_mode>>

AddBatch ==
  \E set_id \in SetIds :
   \E items \in BatchItems(set_id) :
    LET done == add_batch(mam, index, set_id, items, now)
    IN /\ WithinBounds(done.index)
       /\ index' = done.index
       /\ added' = RecordedAll(added, set_id, items, done.ret)
       /\ call' = [op |-> "add_batch", returned |-> TRUE, set_id |-> set_id,
                   items |-> items, ret |-> done.ret]
       /\ UNCHANGED <<mam, now, update_mode>>

UpdateWeight ==
  \E coglet_id \in CogletIds :
    LET done == update_weight(mam, index, coglet_id, now, now, update_mode, {})
    IN /\ WithinBounds(done.index)
       /\ index' = done.index
       /\ call' = [op |-> "update_weight", returned |-> TRUE,
                   coglet_id |-> coglet_id, ret |-> done.ret]
       /\ UNCHANGED <<mam, now, update_mode, added>>

UpdateWeights ==
  \E coglet_ids \in CogletIdLists :
    LET done == update_weights(mam, index, coglet_ids, now, now, update_mode, {})
    IN /\ WithinBounds(done.index)
       /\ index' = done.index
       /\ call' = [op |-> "update_weights", returned |-> TRUE,
                   coglet_ids |-> coglet_ids, ret |-> done.ret]
       /\ UNCHANGED <<mam, now, update_mode, added>>

Recall ==
  \E set_id \in SetIds :
    \E order \in SimilarityOrders(index, set_id) \cup {<<>>} :
      /\ call' = [op |-> "recall", returned |-> TRUE, set_id |-> set_id,
                  ret |-> recall(mam, index, order)]
      /\ UNCHANGED <<mam, index, now, update_mode, added>>

Think ==
  \E set_id \in SetIds, completion \in ThinkCompletions :
    \E order \in SimilarityOrders(index, set_id) \cup {<<>>} :
      \E done \in {think(mam, index, set_id, order, completion, now, update_mode)} :
         /\ WithinBounds(done.index)
         /\ index' = done.index
         /\ call' = [op |-> "think", returned |-> TRUE, set_id |-> set_id,
                     completion |-> completion, ret |-> done.ret]
         /\ UNCHANGED <<mam, now, update_mode, added>>

Next == Tick \/ Add \/ AddBatch \/ UpdateWeight \/ UpdateWeights \/ Recall \/ Think

Spec == Init /\ [][Next]_vars

\* C2: in every state reachable by add, add_batch, update_weight,
\* update_weights and think, every stored unit's weight is in [0.0, 1.0].
C2_StoredWeightInUnitInterval ==
  \A id \in DOMAIN index :
    0 <= index[id].metadata.weight /\ index[id].metadata.weight <= One

\* C6: recall returns as activated the max(1, floor(N * golden_ratio))
\* candidates (all of them when N <= 1) with the highest stored weight among
\* the N candidates of the similarity search, by descending stored weight.
C6_ActivatedByStoredWeight ==
  Returned("recall") =>
    LET results == call.ret.all_results
        activated == call.ret.activated
        N == Len(results)
        k == IF N <= 1 THEN N ELSE Max(1, (N * mam.golden_ratio) \div One)
        Stored(x) == index[x.id].metadata.weight
    IN /\ Len(activated) = k
       /\ \A i \in 1..k : \E j \in 1..N : results[j] = activated[i]
       /\ \A i \in 1..k : \A j \in 1..N :
            (\A h \in 1..k : activated[h] # results[j])
              => Stored(activated[i]) >= Stored(results[j])
       /\ \A i, j \in 1..k : i < j => Stored(activated[i]) >= Stored(activated[j])

\* C8: adding a (set_id, content) that add was given before returns the id
\* it returned then, does not change the number of stored units and leaves
\* exactly one stored unit for the pair.
C8_ReAddIsIdempotent ==
  [][(/\ call'.op = "add"
      /\ AddedBefore(added, call'.set_id, call'.content))
       => /\ \A r \in added :
               (r.set_id = call'.set_id /\ r.content = call'.content)
                 => r.id = call'.ret
          /\ Cardinality(DOMAIN index') = Cardinality(DOMAIN index)
          /\ Cardinality({id \in InSet(index', call'.set_id) :
                            index'[id].data = call'.content}) = 1]_vars

C8_Witness ==
  /\ call.op = "add"
  /\ call.again
  /\ \E r \in added :
       r.set_id = call.set_id /\ r.content = call.content /\ r.id = call.ret
  /\ Cardinality(DOMAIN index) = 2
  /\ now > 0

\* ----------------------------------------------- think's step 7 on its own
ReplyArgs(post_id, reply_text) ==
  JDict([post_id |-> post_id, reply_text |-> reply_text])
FunctionCall(name, args) == JDict([name |-> name, args |-> args])
XReply == JStr(<<"X_reply">>)

\* Entries a model puts in function_calls.
FunctionCallEntries ==
  {FunctionCall(XReply, ReplyArgs(JStr(<<"1">>), JStr(<<"x">>))),
   FunctionCall(XReply, JDict([post_id |-> JStr(<<"1">>)])),
   FunctionCall(XReply, ReplyArgs(JStr(<<>>), JStr(<<"x">>))),
   FunctionCall(XReply, ReplyArgs(JStr(<<"1">>), JNull)),
   FunctionCall(XReply, ReplyArgs(JInt(7), JStr(<<"x">>))),
   JDict([name |-> XReply]),
   FunctionCall(XReply, JNull),
   FunctionCall(JStr(<<"other">>), ReplyArgs(JStr(<<"1">>), JStr(<<"x">>))),
   FunctionCall(JStr(<<"other">>), JNull),
   JDict([name |-> JNull]),
   JDict(<<>>),
   XReply}

\* Values a model gives function_calls: a list of entries, or no list.
FunctionCallValues ==
  {JList(l) : l \in UNION {[1..n -> FunctionCallEntries] : n \in 0..MaxCalls}}
    \cup {JNull, JInt(5), JStr(<<"a">>)}

InitDispatch ==
  /\ EmptyStore
  /\ mam = DefaultMAM
  /\ \E function_calls \in FunctionCallValues :
       call = [op |-> "dispatch", returned |-> FALSE, function_calls |-> function_calls]

Dispatch ==
  /\ call.op = "dispatch" /\ ~call.returned
  /\ call' = [op |-> "dispatch", returned |-> TRUE,
              function_calls |-> call.function_calls,
              ret |-> dispatch(call.function_calls)]
  /\ UNCHANGED <<mam, index, now, update_mode, added>>

NextDispatch == Dispatch

SpecDispatch == InitDispatch /\ [][NextDispatch]_vars

IdA == vector_id(<<"a">>, <<"a">>)
IdB == vector_id(<<"a">>, <<":", "a">>)
OneUnit == add(DefaultMAM, EmptyIndex, <<"a">>, <<"a">>, EmptyDict, 0).index
TwoUnits == add(DefaultMAM, OneUnit, <<"a">>, <<":", "a">>, EmptyDict, 0).index
TwoUnitsOneReinforced(mode) == update_weight(DefaultMAM, TwoUnits, IdA, 0, 0, mode, {}).index
SampleStores(mode) == {EmptyIndex, OneUnit, TwoUnits, TwoUnitsOneReinforced(mode)}

\* A JSON object from optional fields: <<>> for an absent key, <<v>> for v.
ObjectOf(optional) ==
  JDict([k \in {k \in DOMAIN optional : optional[k] # <<>>} |-> optional[k][1]])

\* What the model gives each field of its answer, when it gives it.
CycleIds ==
  {<<>>, <<JList(<<JInt(1)>>)>>, <<JList(<<JInt(2), JStr(<<"I", "D", "=", "1">>)>>)>>,
   <<JList(<<JInt(1), JInt(1)>>)>>, <<JInt(5)>>}
CycleTexts ==
  {<<>>, <<JList(<<JStr(<<"a">>)>>)>>, <<JList(<<JStr(<<"g">>), JStr(<<"h">>)>>)>>,
   <<JList(<<JStr(<<"g">>), JInt(5)>>)>>, <<JInt(5)>>, <<JNull>>}
CycleCalls ==
  {<<>>,
   <<JList(<<FunctionCall(JStr(<<"other">>), JNull),
             FunctionCall(XReply, ReplyArgs(JStr(<<"1">>), JStr(<<"x">>)))>>)>>,
   <<JList(<<XReply>>)>>}
CycleTexts2 == {<<>>, <<JStr(<<"n">>)>>}

CycleObjects ==
  {ObjectOf([activated_cog_ids |-> ids, generated_cog_texts |-> texts,
             function_calls |-> calls, next_thought |-> nt, log |-> nt, extra |-> nt]) :
     ids \in CycleIds, texts \in CycleTexts, calls \in CycleCalls, nt \in CycleTexts2}

CycleCompletions ==
  {CompletionRaises, CompletionNone, CompletionText(NotJsonText(<<"not json">>))}
    \cup {CompletionText(JsonText(obj)) : obj \in CycleObjects}

\* The writes the service refuses during the cycle.
CycleFaults ==
  {NoFaults, Faults({IdA}, {}), Faults({}, {<<"g">>}), Faults({}, {<<"h">>})}

\* The construction parameters of the cycle's memory: the defaults, or a
\* golden ratio of 1.0, with which every candidate is activated.
CycleMAMs ==
  {DefaultMAM,
   MAM(DefaultBeta, DefaultGamma, DefaultB, DefaultInitialWeight, One)}

InitCycle ==
  /\ mam \in CycleMAMs
  /\ added = {}
  /\ update_mode \in UpdateModes
  /\ index \in SampleStores(update_mode)
  /\ now \in 0..MaxNow
  /\ \E completion \in CycleCompletions, faults \in CycleFaults :
       \E order \in SimilarityOrders(index, <<"a">>) \cup {<<>>} :
         call = [op |-> "think", returned |-> FALSE, set_id |-> <<"a">>,
                 input_text |-> JStr(<<"q">>), order |-> order,
                 completion |-> completion, faults |-> faults]

\* CogletNet.think; before keeps the index the cycle started from.
ThinkCycle ==
  /\ call.op = "think" /\ ~call.returned
  /\ \E done \in {think_cycle(mam, index, call.set_id, call.input_text, call.order,
                                call.completion, now, update_mode, call.faults)} :
        /\ index' = done.index
        /\ call' = [op |-> "think", returned |-> TRUE, set_id |-> call.set_id,
                    input_text |-> call.input_text, order |-> call.order,
                    completion |-> call.completion, faults |-> call.faults,
                    before |-> index, exc |-> done.exc, ret |-> done.ret,
                    activated |-> done.activated, reinforced |-> done.reinforced,
                    events |-> done.events]
  /\ UNCHANGED <<mam, now, update_mode, added>>

NextCycle == ThinkCycle

SpecCycle == InitCycle /\ [][NextCycle]_vars

\* The five keys of the record think returns.
RecordKeys ==
  {"next_thought", "activated_cog_ids", "log", "generated_cog_texts", "function_calls"}

\* The model answered with a JSON object that is not empty.
AnsweredObject ==
  /\ call.completion \in {CompletionText(JsonText(obj)) : obj \in CycleObjects}
  /\ DOMAIN call.completion.content.value.fields # {}

\* C11: for every model output that is a non-empty JSON object, think raises
\* nothing and returns a record with exactly the five keys, where a key the
\* output lacks has its empty form, a key it has is carried over (the
\* activated_cog_ids as translated ids) and unknown keys are ignored.
C11_ObjectGivesRecord ==
  (Returned("think") /\ AnsweredObject /\ call.faults = NoFaults) =>
    LET obj == call.completion.content.value
    IN /\ call.exc = "none"
       /\ DOMAIN call.ret = RecordKeys
       /\ call.ret.next_thought = Get(obj, "next_thought", JStr(<<>>))
       /\ call.ret.log = Get(obj, "log", JStr(<<>>))
       /\ call.ret.generated_cog_texts = Get(obj, "generated_cog_texts", JList(<<>>))
       /\ call.ret.function_calls = Get(obj, "function_calls", JList(<<>>))
       /\ "activated_cog_ids" \notin DOMAIN obj.fields => call.ret.activated_cog_ids = <<>>

\* The kinds of the calls a cycle made, in their order.
Kinds(events) == [i \in DOMAIN events |-> events[i].e]

\* C14: every think cycle makes its calls in the order recall, completion,
\* weight updates, additions, function dispatches, return, with none of the
\* stages skipped: one recall, then exactly one completion before any write,
\* all updates before all additions, these before all dispatches (one per
\* entry of function_calls), and the return of the record last.
C14_StagesInOrder ==
  Returned("think") =>
    LET kinds == Kinds(call.events)
        n == Len(kinds)
        Rank(k) == CASE k = "recall" -> 1 [] k = "completion" -> 2 [] k = "update" -> 3
                     [] k = "upsert" -> 4 [] k = "dispatch" -> 5 [] k = "return" -> 6
                     [] k = "raise" -> 6
    IN /\ n >= 3 /\ kinds[1] = "recall" /\ kinds[2] = "completion"
       /\ Cardinality({i \in 1..n : kinds[i] = "completion"}) = 1
       /\ \A i, j \in 1..n : i < j => Rank(kinds[i]) <= Rank(kinds[j])
       /\ kinds[n] = "return"
       /\ Cardinality({i \in 1..n : kinds[i] = "dispatch"})
            = (IF call.ret.function_calls.t = "list"
                 THEN Len(call.ret.function_calls.items) ELSE 0)

\* The completion call of the cycle failed: it raised, or gave no content or
\* no JSON.
CompletionFailed ==
  call.completion \in
    {CompletionRaises, CompletionNone, CompletionText(NotJsonText(<<"not json">>))}

\* C15: when the completion call fails, the cycle still returns the canonical
\* empty record, and no stored unit is created, modified or deleted and no
\* function is invoked: after the recall and the completion nothing is called.
C15_FailedCompletionIsNoOp ==
  (Returned("think") /\ CompletionFailed) =>
    /\ call.exc = "none"
    /\ call.ret = Record(JStr(<<>>), <<>>, JStr(LLMCallFailed), JList(<<>>), JList(<<>>))
    /\ index = call.before
    /\ Kinds(call.events) = <<"recall", "completion", "return">>

C15_Witness ==
  /\ Returned("think")
  /\ call.completion = CompletionRaises
  /\ call.before = TwoUnits
  /\ Len(call.activated) = 2
  /\ call.faults = NoFaults
  /\ index = TwoUnits
  /\ call.ret.log = JStr(LLMCallFailed)

\* The number of times id occurs in the list ids.
RECURSIVE Occurrences(_, _)
Occurrences(ids, id) ==
  IF ids = <<>> THEN 0
  ELSE (IF Head(ids) = id THEN 1 ELSE 0) + Occurrences(Tail(ids), id)

\* The weight, last access and access count of a unit after k reinforcements
\* in succession at the time t.
RECURSIVE ReinforcedTimes(_, _, _)
ReinforcedTimes(k, old, t) ==
  IF k = 0 THEN old
  ELSE ReinforcedTimes(k - 1,
                       [weight |-> calculate_weight(mam, old.weight,
                                                    fromisoformat(old.last_access), t,
                                                    old.access_count),
                        last_access |-> isoformat(t),
                        access_count |-> old.access_count + 1], t)

\* The weight, last access and access count a unit is stored with.
WeightState(unit) ==
  [weight |-> unit.metadata.weight, last_access |-> unit.metadata.last_access,
   access_count |-> unit.metadata.access_count]

\* The ids of the record's activated_cog_ids, and the ids the cycle created
\* units for.
ActivatedIds == {call.ret.activated_cog_ids[i] : i \in DOMAIN call.ret.activated_cog_ids}
CreatedIds ==
  {call.events[i].what : i \in {i \in DOMAIN call.events : call.events[i].e = "upsert"}}

ReinforcementFailed == ActivatedIds \cap call.faults.update # {}

\* The record's generated_cog_texts is a list of texts and its function_calls
\* a list of objects.
WellTypedRecord ==
  /\ call.ret.generated_cog_texts.t = "list"
  /\ \A i \in DOMAIN call.ret.generated_cog_texts.items :
       call.ret.generated_cog_texts.items[i].t = "str"
  /\ call.ret.function_calls.t = "list"
  /\ \A i \in DOMAIN call.ret.function_calls.items :
       call.ret.function_calls.items[i].t = "dict"

\* The events of the kind e among the cycle's events.
EventsOfKind(e) == SelectSeq(call.events, LAMBDA ev : ev.e = e)

\* C17: when the store refuses the reinforcement of one id of
\* activated_cog_ids, the cycle does not fail: the refused unit is stored as
\* before, every other id of the list is reinforced, and for a well-typed
\* record every generated text is created, every function call dispatched and
\* the record returned.
C17_FailedReinforcementIsSkipped ==
  (Returned("think") /\ ReinforcementFailed) =>
    /\ call.exc # "StoreError"
    /\ \A id \in (ActivatedIds \cap call.faults.update) \ CreatedIds :
         index[id] = call.before[id]
    /\ \A id \in ActivatedIds \ (call.faults.update \cup CreatedIds) :
         /\ Occurrences(call.reinforced, id) = Occurrences(call.ret.activated_cog_ids, id)
         /\ index[id].metadata.access_count =
              call.before[id].metadata.access_count
                + Occurrences(call.ret.activated_cog_ids, id)
         /\ index[id].metadata.last_access = isoformat(now)
    /\ WellTypedRecord =>
         /\ call.exc = "none"
         /\ Len(EventsOfKind("upsert")) = Len(call.ret.generated_cog_texts.items)
         /\ Len(EventsOfKind("dispatch")) = Len(call.ret.function_calls.items)
         /\ call.events[Len(call.events)].e = "return"

C17_Witness ==
  /\ Returned("think")
  /\ call.faults = Faults({IdA}, {})
  /\ call.ret.activated_cog_ids = <<IdA, IdB>>
  /\ call.reinforced = <<IdB>>
  /\ index[IdA] = call.before[IdA]
  /\ index[IdB].metadata.access_count = 1
  /\ Len(EventsOfKind("upsert")) = 2
  /\ Len(EventsOfKind("dispatch")) = 2
  /\ call.exc = "none"

\* The texts of the record's generated_cog_texts, when it is a list of texts.
GeneratedTexts ==
  IF call.ret.generated_cog_texts.t = "list"
    THEN {call.ret.generated_cog_texts.items[i].s :
            i \in {i \in DOMAIN call.ret.generated_cog_texts.items :
                     call.ret.generated_cog_texts.items[i].t = "str"}}
  ELSE {}

\* The store refused the creation of the unit of a generated text.
CreationFailed == GeneratedTexts \cap call.faults.upsert # {}

\* C18: when the store write of one generated text raises, the cycle does not
\* fail: the other generated texts are created, the function calls are
\* dispatched and the record is returned.
C18_FailedCreationIsDropped ==
  (Returned("think") /\ CreationFailed /\ WellTypedRecord) =>
    /\ call.exc = "none"
    /\ \A text \in GeneratedTexts \ call.faults.upsert :
         vector_id(call.set_id, text) \in CreatedIds
    /\ Len(EventsOfKind("dispatch")) = Len(call.ret.function_calls.items)
    /\ call.events[Len(call.events)].e = "return"

\* The cycle returned its record: nothing was raised.
Succeeded == Returned("think") /\ call.exc = "none"

\* C19: after a successful think cycle on the collection C, for every text t
\* of the record's generated_cog_texts the store holds the unit
\* vector_id(C, t) with content t, collection C, weight initial_weight,
\* access_count 0 and source = "generated".
C19_GeneratedUnitsStored ==
  Succeeded =>
    \A text \in GeneratedTexts :
      LET id == vector_id(call.set_id, text)
      IN /\ id \in DOMAIN index
         /\ index[id].data = text
         /\ index[id].metadata.set_id = call.set_id
         /\ index[id].metadata.weight = mam.initial_weight
         /\ index[id].metadata.access_count = 0
         /\ "source" \in DOMAIN index[id].metadata
         /\ index[id].metadata.source = <<"generated">>

C19_Witness ==
  /\ Succeeded
  /\ GeneratedTexts = {<<"g">>, <<"h">>}
  /\ call.before = TwoUnits
  /\ DOMAIN index = {IdA, IdB, vector_id(<<"a">>, <<"g">>), vector_id(<<"a">>, <<"h">>)}
  /\ index[vector_id(<<"a">>, <<"h">>)].metadata.source = <<"generated">>
  /\ index[vector_id(<<"a">>, <<"h">>)].data = <<"h">>

\* ------------------------------------------------------- the think loop
MaxIterations == 2

\* Mutant: every cycle is given the input the one before was given.
think_loop_step_same_input(loop, done) ==
  LET results == Append(loop.results, done.ret)
      ran == [loop EXCEPT !.cycles = Append(@, [input_text |-> loop.current_input,
                                                set_id |-> loop.set_id]),
                          !.events = @ \o done.events]
  IN IF done.exc # "none" THEN [ran EXCEPT !.returned = TRUE, !.exc = done.exc]
     ELSE IF ~Truthy(done.ret.next_thought) \/ Len(results) = loop.max_iterations
       THEN [ran EXCEPT !.results = results, !.returned = TRUE, !.ret = results]
     ELSE [ran EXCEPT !.results = results]

\* One pass of the for loop of think_loop, from what its think call did: an
\* exception of think leaves the loop; else the record is appended, an empty
\* next_thought breaks the loop, any other one is the next input, and the
\* loop returns the records at its break or at the end of the range.
think_loop_step(loop, done) ==
  LET results == Append(loop.results, done.ret)
      ran == [loop EXCEPT !.cycles = Append(@, [input_text |-> loop.current_input,
                                                set_id |-> loop.set_id]),
                          !.events = @ \o done.events]
  IN IF done.exc # "none" THEN [ran EXCEPT !.returned = TRUE, !.exc = done.exc]
     ELSE IF ~Truthy(done.ret.next_thought)
       THEN [ran EXCEPT !.results = results, !.returned = TRUE, !.ret = results]
     ELSE IF Len(results) = loop.max_iterations
       THEN [ran EXCEPT !.results = results, !.current_input = done.ret.next_thought,
                        !.returned = TRUE, !.ret = results]
     ELSE [ran EXCEPT !.results = results, !.current_input = done.ret.next_thought]

\* What the model answers in the cycles of a loop: nothing (the call raises),
\* a next thought with an activated unit or a generated text, an empty or
\* absent next thought, or a next thought beside texts that are no list.
LoopCompletions ==
  {CompletionRaises}
    \cup {CompletionText(JsonText(JDict(fields))) :
            fields \in {[next_thought |-> JStr(<<"n">>),
                         activated_cog_ids |-> JList(<<JInt(1)>>)],
                        [next_thought |-> JStr(<<"m">>),
                         generated_cog_texts |-> JList(<<JStr(<<"g">>)>>)],
                        [next_thought |-> JStr(<<>>)],
                        [log |-> JStr(<<"n">>)],
                        [next_thought |-> JStr(<<"n">>), generated_cog_texts |-> JInt(5)]}}

InitLoop ==
  /\ mam = DefaultMAM
  /\ added = {}
  /\ update_mode \in UpdateModes
  /\ index \in {EmptyIndex, TwoUnits}
  /\ now \in 0..MaxNow
  /\ \E set_id \in SetIds, max_iterations \in 0..MaxIterations :
       call = [op |-> "think_loop", returned |-> FALSE, exc |-> "none",
               input_text |-> JStr(<<"q">>), set_id |-> set_id,
               max_iterations |-> max_iterations, current_input |-> JStr(<<"q">>),
               results |-> <<>>, cycles |-> <<>>, events |-> <<>>, ret |-> <<>>]

\* think_loop, one pass of its loop: think on the current input.
ThinkLoopCycle ==
  /\ call.op = "think_loop" /\ ~call.returned
  /\ Len(call.results) < call.max_iterations
  /\ \E completion \in LoopCompletions :
       \E order \in SimilarityOrders(index, call.set_id) \cup {<<>>} :
         \E done \in {think_cycle(mam, index, call.set_id, call.current_input, order,
                                    completion, now, update_mode, NoFaults)} :
            /\ index' = done.index
            /\ call' = think_loop_step(call, done)
  /\ UNCHANGED <<mam, now, update_mode, added>>

\* think_loop when range(max_iterations) is empty: the empty list is returned.
ThinkLoopReturn ==
  /\ call.op = "think_loop" /\ ~call.returned
  /\ Len(call.results) >= call.max_iterations
  /\ call' = [call EXCEPT !.returned = TRUE, !.ret = call.results]
  /\ UNCHANGED <<mam, index, now, update_mode, added>>

NextLoop == ThinkLoopCycle \/ ThinkLoopReturn

SpecLoop == InitLoop /\ [][NextLoop]_vars

\* C12: think_loop returns exactly min(max_iterations, j) records, j being the
\* first cycle whose record has an empty next_thought: it returns at most
\* max_iterations records, every record but the last has a next_thought, and
\* fewer than max_iterations are returned only when the last one has none.
C12_ReturnsMinRecords ==
  Returned("think_loop") =>
    /\ call.exc = "none"
    /\ Len(call.ret) <= call.max_iterations
    /\ \A i \in 1..(Len(call.ret) - 1) : Truthy(call.ret[i].next_thought)
    /\ Len(call.ret) < call.max_iterations =>
         Len(call.ret) >= 1 /\ ~Truthy(call.ret[Len(call.ret)].next_thought)

\* The positions of the recall events among the loop's events.
Recalls == {i \in DOMAIN call.events : call.events[i].e = "recall"}

\* C13: in think_loop the first cycle is run on the initial input and every
\* later cycle on the next_thought of the record of the cycle before it, all
\* on the loop's collection, and a cycle starts only when the one before it
\* has returned its record.
C13_NextThoughtIsNextInput ==
  call.op = "think_loop" =>
    /\ \A i \in DOMAIN call.cycles :
         /\ call.cycles[i].set_id = call.set_id
         /\ call.cycles[i].input_text =
              IF i = 1 THEN call.input_text ELSE call.results[i - 1].next_thought
    /\ Cardinality(Recalls) = Len(call.cycles)
    /\ \A i \in Recalls :
         /\ call.events[i].what = call.cycles[Cardinality({j \in Recalls : j <= i})].input_text
         /\ i > 1 => call.events[i - 1].e = "return"

C13_Witness ==
  /\ Returned("think_loop")
  /\ call.exc = "none"
  /\ Len(call.ret) = 2
  /\ call.ret[1].next_thought = JStr(<<"n">>)
  /\ call.cycles[1].input_text = JStr(<<"q">>)
  /\ call.cycles[2].input_text = JStr(<<"n">>)
  /\ call.ret[2].next_thought = JStr(<<"m">>)
  /\ Cardinality(Recalls) = 2

\* ------------------------------------------------- the store's single units
\* Index.delete(ids): the vectors of the ids are gone, the others stay.
index_delete(idx, ids) == [i \in DOMAIN idx \ ids |-> idx[i]]

\* VectorStore.get_coglet: Index.fetch answers [None] for an id it does not
\* hold, which gives KeyError.
get_coglet(idx, coglet_id) ==
  IF coglet_id \notin DOMAIN idx THEN [exc |-> "KeyError"]
  ELSE [exc |-> "none",
        ret |-> [content |-> idx[coglet_id].data,
                 metadata |-> process_metadata(idx[coglet_id].metadata)]]

\* Mutant: deleting an id that is not stored is reported as a failure.
delete_coglet_reporting_missing(idx, coglet_id, refused) ==
  IF refused \/ coglet_id \notin DOMAIN idx THEN [index |-> idx, ret |-> FALSE]
  ELSE [index |-> index_delete(idx, {coglet_id}), ret |-> TRUE]

\* VectorStore.delete_coglet: deleted is 0 or 1, so the result is True unless
\* Index.delete raises (refused), which gives False.
delete_coglet(idx, coglet_id, refused) ==
  IF refused THEN [index |-> idx, ret |-> FALSE]
  ELSE [index |-> index_delete(idx, {coglet_id}), ret |-> TRUE]

\* Metadata a caller hands to add_coglet and to update_coglet.
StoreMetadata == {EmptyDict, [type |-> <<"t">>]}

InitStore ==
  /\ mam = DefaultMAM
  /\ update_mode \in UpdateModes
  /\ index = EmptyIndex
  /\ now = 0
  /\ added = {}
  /\ call = [op |-> "init", returned |-> TRUE]

\* VectorStore.add_coglet
AddCoglet ==
  \E set_id \in SetIds, metadata \in StoreMetadata :
    \E content \in ContentsOf(set_id) :
      \E done \in {add_coglet(index, set_id, content, metadata, now)} :
        /\ index' = done.index
        /\ call' = [op |-> "add_coglet", returned |-> TRUE, coglet_id |-> done.ret,
                    before |-> index, exc |-> "none"]
        /\ UNCHANGED <<mam, now, update_mode, added>>

\* VectorStore.get_coglet
GetCoglet ==
  \E coglet_id \in CogletIds :
    \E done \in {get_coglet(index, coglet_id)} :
      /\ call' = [op |-> "get_coglet", returned |-> TRUE, coglet_id |-> coglet_id,
                  before |-> index, exc |-> done.exc]
      /\ UNCHANGED <<mam, index, now, update_mode, added>>

\* VectorStore.update_coglet
UpdateCoglet ==
  \E coglet_id \in CogletIds, metadata \in StoreMetadata :
    \E done \in {update_coglet(index, coglet_id, metadata, now, update_mode, {})} :
      /\ index' = done.index
      /\ call' = [op |-> "update_coglet", returned |-> TRUE, coglet_id |-> coglet_id,
                  before |-> index, exc |-> done.exc]
      /\ UNCHANGED <<mam, now, update_mode, added>>

\* VectorStore.delete_coglet
DeleteCoglet ==
  \E coglet_id \in CogletIds, refused \in BOOLEAN :
    \E done \in {delete_coglet(index, coglet_id, refused)} :
      /\ index' = done.index
      /\ call' = [op |-> "delete_coglet", returned |-> TRUE, coglet_id |-> coglet_id,
                  before |-> index, exc |-> "none", refused |-> refused,
                  ret |-> done.ret]
      /\ UNCHANGED <<mam, now, update_mode, added>>

NextStore == AddCoglet \/ GetCoglet \/ UpdateCoglet \/ DeleteCoglet

SpecStore == InitStore /\ [][NextStore]_vars

\* C21: get_coglet and update_coglet of an id that is not stored raise
\* KeyError and leave the store as it was; delete_coglet of such an id, when
\* the service's delete does not raise, returns True and leaves the store as
\* it was; and the get_coglet that follows a delete_coglet that returned True
\* raises KeyError.
C21_NotFoundAndIdempotentDelete ==
  [][/\ (call'.op \in {"get_coglet", "update_coglet"}
           /\ call'.coglet_id \notin DOMAIN index)
          => (call'.exc = "KeyError" /\ index' = index)
     /\ (call'.op = "delete_coglet" /\ ~call'.refused
           /\ call'.coglet_id \notin DOMAIN index)
          => (call'.ret /\ call'.exc = "none" /\ index' = index)
     /\ (call.op = "delete_coglet" /\ call.ret /\ call'.op = "get_coglet"
           /\ call'.coglet_id = call.coglet_id)
          => call'.exc = "KeyError"]_vars

C21_Witness ==
  /\ call.op = "delete_coglet"
  /\ call.coglet_id \notin DOMAIN call.before
  /\ call.before # EmptyIndex
  /\ call.ret
  /\ index = call.before

\* ------------------------------------------------- the queries of a recall
\* range(2) in search_similar: the queries one search makes at most.
SearchAttempts == 2

\* What Index.query does: it raises, or answers the matching vectors in an
\* order, none of them while the index lags behind a write.
QueryRaises == [kind |-> "raise", order |-> <<>>]
QueryResults(order) == [kind |-> "results", order |-> order]

\* Mutant: every query of the range is made, and the last answer is taken.
RECURSIVE query_loop_to_the_end(_, _)
query_loop_to_the_end(answers, attempt) ==
  IF answers[attempt].kind = "raise"
    THEN [exc |-> "Exception", order |-> <<>>, queries |-> attempt]
  ELSE IF attempt = SearchAttempts
    THEN [exc |-> "none", order |-> answers[attempt].order, queries |-> attempt]
  ELSE query_loop_to_the_end(answers, attempt + 1)

\* search_similar, its loop: the query is made again while the answer is
\* empty, up to the end of the range; an exception of the query leaves it.
RECURSIVE query_loop(_, _)
query_loop(answers, attempt) ==
  IF answers[attempt].kind = "raise"
    THEN [exc |-> "Exception", order |-> <<>>, queries |-> attempt]
  ELSE IF answers[attempt].order # <<>> \/ attempt = SearchAttempts
    THEN [exc |-> "none", order |-> answers[attempt].order, queries |-> attempt]
  ELSE query_loop(answers, attempt + 1)

\* VectorStore.search_similar with its queries: every exception of the body
\* is caught and gives the empty list.
search_similar_queried(idx, answers) ==
  LET queried == query_loop(answers, 1)
  IN [exc |-> "none", queries |-> queried.queries,
      ret |-> IF queried.exc = "none" THEN search_similar(idx, queried.order) ELSE <<>>]

\* Coglets.recall with the queries of its search.
recall_queried(m, idx, answers) ==
  LET searched == search_similar_queried(idx, answers)
  IN [exc |-> searched.exc, queries |-> searched.queries,
      ret |-> [all_results |-> searched.ret,
               activated |-> select_activated_memories(m, searched.ret, "weight")]]

\* The answers the service can give to one query on the set.
QueryAnswers(idx, set_id) ==
  {QueryRaises} \cup {QueryResults(order) : order \in SimilarityOrders(idx, set_id) \cup {<<>>}}

InitRecall ==
  /\ mam \in CycleMAMs
  /\ added = {}
  /\ update_mode \in UpdateModes
  /\ index \in SampleStores(update_mode)
  /\ now \in 0..MaxNow
  /\ \E answers \in [1..SearchAttempts -> QueryAnswers(index, <<"a">>)] :
       call = [op |-> "recall", returned |-> FALSE, set_id |-> <<"a">>,
               answers |-> answers]

\* Coglets.recall
RecallQueried ==
  /\ call.op = "recall" /\ ~call.returned
  /\ \E done \in {recall_queried(mam, index, call.answers)} :
       call' = [op |-> "recall", returned |-> TRUE, set_id |-> call.set_id,
                answers |-> call.answers, exc |-> done.exc, queries |-> done.queries,
                ret |-> done.ret]
  /\ UNCHANGED <<mam, index, now, update_mode, added>>

NextRecall == RecallQueried

SpecRecall == InitRecall /\ [][NextRecall]_vars

\* The ids of a list of search results, in their order.
IdsOf(results) == [i \in DOMAIN results |-> results[i].id]

\* C22: recall makes at most 2 queries; it makes the second one only when the
\* first answer is empty, and takes the first answer that is not empty; when
\* every answer is empty it returns an empty candidate list and an empty
\* activated list, and nothing is raised.
C22_BoundedRequery ==
  (Returned("recall") /\ call.answers[1].kind = "results") =>
    /\ call.exc = "none"
    /\ call.queries <= SearchAttempts
    /\ call.queries = IF call.answers[1].order # <<>> THEN 1 ELSE 2
    /\ call.answers[1].order # <<>> =>
         IdsOf(call.ret.all_results) = call.answers[1].order
    /\ (call.answers[1].order = <<>> /\ call.answers[2].kind = "results") =>
         IdsOf(call.ret.all_results) = call.answers[2].order
    /\ (\A i \in 1..SearchAttempts : call.answers[i] = QueryResults(<<>>)) =>
         call.ret = [all_results |-> <<>>, activated |-> <<>>]

C22_Witness ==
  /\ Returned("recall")
  /\ index = TwoUnits
  /\ call.answers[1] = QueryResults(<<>>)
  /\ call.answers[2] = QueryResults(<<IdB, IdA>>)
  /\ call.queries = 2
  /\ IdsOf(call.ret.all_results) = <<IdB, IdA>>
  /\ Len(call.ret.activated) >= 1

\* The query that raised: the first one, or the second one made after an
\* empty first answer.
QueryRaised ==
  \/ call.answers[1] = QueryRaises
  \/ call.answers[1] = QueryResults(<<>>) /\ call.answers[2] = QueryRaises

\* C23: an error the similarity service raises during the recall query is
\* not turned into an empty result: recall raises it to its caller.
C23_QueryErrorPropagates ==
  (Returned("recall") /\ QueryRaised) =>
    call.exc # "none"

\* ------------------------------------------- custom metadata, there and back
\* Here a value is a Python value with its type, and a str carries its text:
\* JsonText(v) for a text json.loads reads as v, NotJsonText(raw) for another.
Text(raw) == JStr(NotJsonText(raw))
TextOf(value) == JStr(JsonText(value))

\* The keys _process_metadata passes through as they are.
ReservedKeys == {"set_id", "created_at", "updated_at"}

\* json.dumps(value): the text json.loads reads as the value.
json_dumps(value) == TextOf(value)

\* add_coglet, the loop over the caller's metadata: a str, int, float or bool
\* is stored as it is, any other value as its JSON text.
stored_value(value) ==
  IF value.t \in {"str", "int", "float", "bool"} THEN value ELSE json_dumps(value)

\* add_coglet, the metadata it upserts: set_id and created_at, then the
\* caller's items under their keys.
stored_metadata(set_id, metadata, t) ==
  DictUpdate([set_id |-> Text(set_id), created_at |-> Text(isoformat(t))],
             [k \in DOMAIN metadata |-> stored_value(metadata[k])])

\* _process_metadata, one item: a reserved key passes; a str that json.loads
\* can read is replaced by what it reads.
processed_value(key, value) ==
  IF key \in ReservedKeys THEN value
  ELSE IF value.t = "str" /\ json_loads(value.s).exc = "none"
    THEN json_loads(value.s).value
  ELSE value

\* _process_metadata over the metadata fetched.
processed_metadata(metadata) ==
  [k \in DOMAIN metadata |-> processed_value(k, metadata[k])]

\* The keys and values a caller hands to add_coglet: numbers, booleans,
\* None, lists, objects, and texts, some of which read as JSON ("5", "true",
\* "null", "[]", "\"t\"").
MetadataKeys == {"type", "k"} \cup ReservedKeys
MetadataValues ==
  {JInt(5), JInt(0), JBool(TRUE), JFloat(<<"0", ".", "5">>), JNull, JList(<<>>),
   JList(<<JInt(1), Text(<<"t">>)>>), JDict([a |-> JInt(1)]),
   Text(<<"t">>), Text(<<>>), TextOf(JInt(5)), TextOf(JBool(TRUE)), TextOf(JNull),
   TextOf(JList(<<>>)), TextOf(Text(<<"t">>))}

InitMeta ==
  /\ mam = DefaultMAM
  /\ EmptyStore
  /\ \E key \in MetadataKeys, value \in MetadataValues :
       call = [op |-> "add_get", returned |-> FALSE, key |-> key, value |-> value]

\* add_coglet(set_id, content, {key: value}) and then get_coglet of its id:
\* the metadata stored and the metadata returned.
AddThenGet ==
  /\ call.op = "add_get" /\ ~call.returned
  /\ \E stored \in {stored_metadata(<<"a">>, [k \in {call.key} |-> call.value], now)} :
       call' = [op |-> "add_get", returned |-> TRUE, key |-> call.key,
                value |-> call.value, stored |-> stored,
                ret |-> processed_metadata(stored)]
  /\ UNCHANGED <<mam, index, now, update_mode, added>>

NextMeta == AddThenGet

SpecMeta == InitMeta /\ [][NextMeta]_vars

\* C24: for every non-reserved key k and every value v handed to add_coglet,
\* the get_coglet that follows returns metadata[k] = v; a reserved field is
\* returned as it is stored.
C24_MetadataRoundTrip ==
  Returned("add_get") =>
    /\ call.key \notin ReservedKeys => call.ret[call.key] = call.value
    /\ \A k \in ReservedKeys \cap DOMAIN call.stored : call.ret[k] = call.stored[k]

\* --------------------------------- C25, C26, C27: the memory in operation
\* The units of the index that belong to another collection than set_id.
UnitsOfOthers(idx, set_id) ==
  {id \in DOMAIN idx : "set_id" \in DOMAIN idx[id].metadata
                         /\ idx[id].metadata.set_id # set_id}

\* C25: an operation run for one collection (add, add_batch, recall, think)
\* never creates, modifies or deletes a unit that belongs to another
\* collection.
C25_CollectionsIsolated ==
  [][call'.op \in {"add", "add_batch", "recall", "think"} =>
       /\ \A id \in UnitsOfOthers(index, call'.set_id) :
            id \in DOMAIN index' /\ index'[id] = index[id]
       /\ UnitsOfOthers(index', call'.set_id) \subseteq UnitsOfOthers(index, call'.set_id)]_vars

\* The metadata keys a reinforcement writes.
ReinforcedKeys == {"weight", "access_count", "last_access", "updated_at"}

\* C26: a reinforcement that succeeds changes only the unit's weight,
\* access_count, last_access and updated_at: its content, set_id, created_at
\* and custom metadata stay, and the unit stays in its collection.
C26_ReinforcementKeepsTheRest ==
  [][(call'.op = "update_weight" /\ call'.ret) =>
       /\ index'[call'.coglet_id].data = index[call'.coglet_id].data
       /\ \A k \in DOMAIN index[call'.coglet_id].metadata \ ReinforcedKeys :
            /\ k \in DOMAIN index'[call'.coglet_id].metadata
            /\ index'[call'.coglet_id].metadata[k] = index[call'.coglet_id].metadata[k]
       /\ \A set_id \in SetIds :
            call'.coglet_id \in InSet(index, set_id)
              => call'.coglet_id \in InSet(index', set_id)]_vars

\* C27: once a unit exists its created_at never changes, and its weight and
\* access_count are changed by nothing but a reinforcement (update_weight,
\* update_weights and step 5 of think).
C27_CreatedOnceWeightByModel ==
  [][\A id \in DOMAIN index \cap DOMAIN index' :
       /\ "created_at" \in DOMAIN index[id].metadata =>
            /\ "created_at" \in DOMAIN index'[id].metadata
            /\ index'[id].metadata.created_at = index[id].metadata.created_at
       /\ call'.op \in {"add", "add_batch", "recall", "tick"} =>
            /\ index'[id].metadata.weight = index[id].metadata.weight
            /\ index'[id].metadata.access_count = index[id].metadata.access_count]_vars

\* --------------------------------------------- a memory that decays to zero
MaxDecayHours == 3
MaxReinforcements == 2

InitDecay ==
  /\ mam = DefaultMAM
  /\ update_mode \in UpdateModes
  /\ index \in {OneUnit, TwoUnits}
  /\ now = 0
  /\ added = {}
  /\ call = [op |-> "init", returned |-> TRUE]

\* An hour passes.
DecayTick ==
  /\ now < MaxDecayHours
  /\ now' = now + 1
  /\ call' = [op |-> "tick", returned |-> TRUE]
  /\ UNCHANGED <<mam, index, update_mode, added>>

\* Coglets.update_weight of a stored unit
Reinforce ==
  \E coglet_id \in DOMAIN index :
    /\ index[coglet_id].metadata.access_count < MaxReinforcements
    /\ \E done \in {update_weight(mam, index, coglet_id, now, now, update_mode, {})} :
         /\ index' = done.index
         /\ call' = [op |-> "update_weight", returned |-> TRUE,
                     coglet_id |-> coglet_id, ret |-> done.ret]
    /\ UNCHANGED <<mam, now, update_mode, added>>

\* Coglets.recall on the collection
RecallDecayed ==
  \E order \in SimilarityOrders(index, <<"a">>) :
    /\ call' = [op |-> "recall", returned |-> TRUE, set_id |-> <<"a">>,
                ret |-> recall(mam, index, order)]
    /\ UNCHANGED <<mam, index, now, update_mode, added>>

NextDecay == DecayTick \/ Reinforce \/ RecallDecayed

SpecDecay == InitDecay /\ [][NextDecay]_vars

\* C28: a unit whose stored weight has reached 0 is never in the activated
\* list of a recall, and a reinforcement leaves its weight at 0.
C28_ZeroWeightStaysOut ==
  [][/\ call'.op = "recall" =>
          \A i \in DOMAIN call'.ret.activated :
            index[call'.ret.activated[i].id].metadata.weight # 0
     /\ (call'.op = "update_weight" /\ call'.ret
           /\ index[call'.coglet_id].metadata.weight = 0)
          => index'[call'.coglet_id].metadata.weight = 0]_vars

\* C29: the weight updates of one think cycle are for pairwise distinct
\* units: no id is in the record's activated_cog_ids twice.
C29_ReinforcedIdsDistinct ==
  Returned("think") =>
    \A i, j \in DOMAIN call.ret.activated_cog_ids :
      i # j => call.ret.activated_cog_ids[i] # call.ret.activated_cog_ids[j]

\* ------------------------------------------------- clearing a collection
\* batch_size = 1000 in clean_coglet_set, scaled down: the vectors one query
\* of a delete round asks for.
BatchSize == 1
\* max_attempts = 3 and the top_k = 10 of the final check.
MaxAttempts == 3
FinalCheckTopK == 10

\* The elements of a sequence.
Range(seq) == {seq[i] : i \in DOMAIN seq}

\* Index.query(data="", top_k, filter set_id = '<set_id>'): the first top_k
\* matching vectors in the service's ranking of the ids.
query(idx, set_id, ranking, top_k) ==
  LET matching == SelectSeq(ranking, LAMBDA id : id \in InSet(idx, set_id))
  IN SubSeq(matching, 1, Min(top_k, Len(matching)))

\* clean_coglet_set from its attempt-th pass on: a query that finds nothing
\* returns True; else what it finds is deleted (an exception of Index.delete
\* leaves the method) and the next pass follows; after the last pass the
\* final check decides. rounds counts the deletes made.
RECURSIVE clean_from(_, _, _, _, _)
clean_from(idx, set_id, ranking, refused, attempt) ==
  IF attempt > MaxAttempts
    THEN [index |-> idx, exc |-> "none", rounds |-> MaxAttempts,
          ret |-> Len(query(idx, set_id, ranking, FinalCheckTopK)) = 0]
  ELSE LET results == query(idx, set_id, ranking, BatchSize)
       IN IF results = <<>>
            THEN [index |-> idx, exc |-> "none", rounds |-> attempt - 1, ret |-> TRUE]
          ELSE IF refused
            THEN [index |-> idx, exc |-> "Exception", rounds |-> attempt - 1, ret |-> FALSE]
          ELSE clean_from(index_delete(idx, Range(results)), set_id, ranking, refused,
                          attempt + 1)

\* VectorStore.clean_coglet_set
clean_coglet_set(idx, set_id, ranking, refused) ==
  clean_from(idx, set_id, ranking, refused, 1)

\* Coglets.create_set: True unless clean_coglet_set raises; what
\* clean_coglet_set returns is not looked at.
create_set(idx, set_id, ranking, refused) ==
  LET cleaned == clean_coglet_set(idx, set_id, ranking, refused)
  IN [index |-> cleaned.index, exc |-> "none", rounds |-> cleaned.rounds,
      ret |-> cleaned.exc = "none"]

\* The units a collection can hold before it is cleared: up to four of the
\* collection and one of another.
CleanContents == <<<<"a">>, <<"b">>, <<"c">>, <<"d">>>>
RECURSIVE StoreOf(_, _)
StoreOf(set_id, contents) ==
  IF contents = <<>> THEN EmptyIndex
  ELSE add(DefaultMAM, StoreOf(set_id, Tail(contents)), set_id, Head(contents), EmptyDict, 0).index
CleanStores ==
  {DictUpdate(StoreOf(<<"a">>, SubSeq(CleanContents, 1, n)), other) :
     n \in 0..Len(CleanContents),
     other \in {EmptyIndex, StoreOf(<<"b">>, <<<<"a">>>>)}}

\* The service's rankings of the ids: two of them.
CleanIds == [i \in 1..Len(CleanContents) |-> vector_id(<<"a">>, CleanContents[i])]
Rankings ==
  {CleanIds \o <<vector_id(<<"b">>, <<"a">>)>>,
   <<vector_id(<<"b">>, <<"a">>)>> \o [i \in 1..Len(CleanIds) |-> CleanIds[Len(CleanIds) + 1 - i]]}

InitClean ==
  /\ mam = DefaultMAM
  /\ update_mode \in UpdateModes
  /\ index \in CleanStores
  /\ now = 0
  /\ added = {}
  /\ \E op \in {"clean_coglet_set", "create_set"}, ranking \in Rankings,
        refused \in BOOLEAN :
       call = [op |-> op, returned |-> FALSE, set_id |-> <<"a">>, ranking |-> ranking,
               refused |-> refused]

\* VectorStore.clean_coglet_set
CleanCogletSet ==
  /\ call.op = "clean_coglet_set" /\ ~call.returned
  /\ \E done \in {clean_coglet_set(index, call.set_id, call.ranking, call.refused)} :
       /\ index' = done.index
       /\ call' = [op |-> call.op, returned |-> TRUE, set_id |-> call.set_id,
                   ranking |-> call.ranking, refused |-> call.refused, before |-> index,
                   exc |-> done.exc, rounds |-> done.rounds, ret |-> done.ret]
  /\ UNCHANGED <<mam, now, update_mode, added>>

\* Coglets.create_set
CreateSet ==
  /\ call.op = "create_set" /\ ~call.returned
  /\ \E done \in {create_set(index, call.set_id, call.ranking, call.refused)} :
       /\ index' = done.index
       /\ call' = [op |-> call.op, returned |-> TRUE, set_id |-> call.set_id,
                   ranking |-> call.ranking, refused |-> call.refused, before |-> index,
                   exc |-> done.exc, rounds |-> done.rounds, ret |-> done.ret]
  /\ UNCHANGED <<mam, now, update_mode, added>>

NextClean == CleanCogletSet \/ CreateSet

SpecClean == InitClean /\ [][NextClean]_vars

\* C30: clean_coglet_set makes at most 3 delete rounds; when it returns True
\* no unit of the set is left in the store, and it returns False when units
\* of the set are left after the last round; when create_set returns True the
\* collection is empty.
C30_TrueMeansEmpty ==
  /\ (Returned("clean_coglet_set") /\ call.exc = "none") =>
       /\ call.rounds <= MaxAttempts
       /\ call.ret <=> InSet(index, call.set_id) = {}
  /\ (Returned("create_set") /\ call.ret) => InSet(index, call.set_id) = {}

====
